---- MODULE Spec2Model ----
(***************************************************************************)
(* ProcessQueueImpl (cpp/source/rocketmq/ProcessQueueImpl.cpp): the        *)
(* per-partition process queue of the push consumer.  The model covers the *)
(* weakly referenced owning consumer, the completion sink captured by the  *)
(* receive callback, the pop request construction with its attempt id, the *)
(* cache counters with throttling, and the idle marker.                    *)
(***************************************************************************)
EXTENDS Integers, Sequences, FiniteSets, Bags, TLC

VARIABLES
    consumerHeld,             \* some holder other than this queue's running calls owns the PushConsumerImpl
    maxCachedMessageQuantity, \* PushConsumerImpl::maxCachedMessageQuantity()
    maxCachedMessageMemory,   \* PushConsumerImpl::maxCachedMessageMemory(), 0 = not configured
    subscription,             \* PushConsumerImpl::getFilterExpression(topic): an optional FilterExpression
    pqAlive,                  \* the ProcessQueueImpl object has not been destructed
    receive_callback_,        \* shared_ptr<AsyncReceiveMessageCallback> member: Null or a sink
    sinkHeld,                 \* sinks owned by somebody other than the process queue
    cached_message_quantity_, \* atomic<uint64_t>
    cached_message_memory_,   \* atomic<uint64_t>
    idle_since_,              \* steady_clock::time_point
    now,                      \* steady_clock::now()
    attempt_id,               \* the caller's std::string handed to receiveMessage by reference
    pc,                       \* position of the receive call: "idle" or "pop" (inside receiveMessage, before popMessage)
    inflight,                 \* bag of the requests handed to ClientManager::receiveMessage, with their callbacks
    descriptor,               \* an rmq::FilterExpression handed to wrapFilterExpression
    invisible_time_,          \* std::chrono::milliseconds
    threads,                  \* receive calls that run side by side: each one's position and locals
    pending,                  \* history: bag of the messages handed to accountCache and not yet released
    lastRefresh,              \* history: the time of the last syncIdleState(), -1 before the first
    event                     \* history: what the last operation did and returned

vars == <<consumerHeld, maxCachedMessageQuantity, maxCachedMessageMemory, subscription,
          pqAlive, receive_callback_, sinkHeld, cached_message_quantity_,
          cached_message_memory_, idle_since_, now, attempt_id, pc, inflight,
          descriptor, invisible_time_, threads, pending, lastRefresh, event>>

ownerVars == <<maxCachedMessageQuantity, maxCachedMessageMemory>>
cacheVars == <<cached_message_quantity_, cached_message_memory_, pending>>
clockVars == <<idle_since_, now, lastRefresh>>
sinkVars  == <<receive_callback_, sinkHeld>>

----------------------------------------------------------------------------
(* Bounds of the model *)

MaxInFlight == 1      \* requests outstanding at the transport
MaxSeed == 1          \* distinct raw identifiers per length: seeds 0..MaxSeed
MaxRawLen == 35       \* longest raw identifier the generator is taken to return
MaxBodySize == 2      \* largest message body, in bytes
MaxBatch == 2         \* most messages in one accountCache call
MaxPending == 2       \* most messages handed to accountCache and not yet released
MaxQuantityThreshold == 2
MaxTime == 5          \* clock ticks
CounterBits == 4      \* width of the cache counters in the model (64 in the code)

MaxSeconds == 1       \* whole seconds of the longest invisible duration

Null == "null"
Sinks == {"sink1", "sink2"}
Threads == {"t1", "t2"}
Empty == << >>

Min(a, b) == IF a < b THEN a ELSE b

RECURSIVE Pow2(_)
Pow2(n) == IF n = 0 THEN 1 ELSE 2 * Pow2(n - 1)

CounterModulus == Pow2(CounterBits)

----------------------------------------------------------------------------
(* weak_ptr resolution *)

\* a receive call that is not running
IdleThread == [pc |-> "idle"]

ConsumerAliveNoLocal == consumerHeld

\* the PushConsumerImpl is alive while somebody owns it: another holder, or
\* the shared_ptr local of a receiveMessage call that is still running
ConsumerAlive ==
    consumerHeld \/ pc = "pop" \/ \E th \in Threads : threads[th].pc # "idle"

ConsumerLockUnchecked == "consumer"

\* consumer_.lock()
ConsumerLock == IF ConsumerAlive THEN "consumer" ELSE Null

\* a sink is alive while the process queue's receive_callback_ or another holder owns it
SinkAlive(s) == s # Null /\ (s \in sinkHeld \/ (pqAlive /\ receive_callback_ = s))

SinkLockUnchecked(cb) == cb

\* cb.lock() inside the completion lambda
SinkLock(cb) == IF SinkAlive(cb) THEN cb ELSE Null

----------------------------------------------------------------------------
(* Attempt identifiers *)

Hex == <<"0", "1", "2", "3", "4", "5", "6", "7", "8", "9", "a", "b", "c", "d", "e", "f">>

\* UniqueIdGenerator::instance().next(): a raw identifier of the given length
RawId(len, seed) == [i \in 1..len |-> Hex[((i + 5 * seed) % 16) + 1]]

RawIds == {RawId(len, seed) : len \in {0, 31} \cup (32..MaxRawLen), seed \in 0..MaxSeed}

\* an identifier the caller already holds from somewhere else
CallerId == <<"c", "a", "l", "l", "e", "r">>

\* std::string::substr(pos, len)
Substr(s, pos, len) == SubSeq(s, pos + 1, Min(pos + len, Len(s)))

MinRawIdSize == 34

generateAttemptIdUngrouped(id, unique_id) ==
    IF Len(unique_id) < MinRawIdSize THEN id ELSE unique_id

generateAttemptIdUnchecked(id, unique_id) ==
    Substr(unique_id, 0, 8) \o <<"-">> \o Substr(unique_id, 8, 4) \o <<"-">>
    \o Substr(unique_id, 12, 4) \o <<"-">> \o Substr(unique_id, 16, 4) \o <<"-">>
    \o Substr(unique_id, 20, 12)

\* generateAttemptId(attempt_id), with the generator's answer as unique_id
generateAttemptId(id, unique_id) ==
    IF Len(unique_id) < MinRawIdSize THEN id
    ELSE Substr(unique_id, 0, 8) \o <<"-">> \o Substr(unique_id, 8, 4) \o <<"-">>
         \o Substr(unique_id, 12, 4) \o <<"-">> \o Substr(unique_id, 16, 4) \o <<"-">>
         \o Substr(unique_id, 20, 12)

----------------------------------------------------------------------------
(* Filter expression *)

\* the absl::optional<FilterExpression> getFilterExpression(topic) returns
NoFilter == [has_value |-> FALSE]
Subscriptions == {NoFilter,
                  [has_value |-> TRUE, type_ |-> "TAG", content_ |-> "tagA"],
                  [has_value |-> TRUE, type_ |-> "SQL92", content_ |-> "a > 5"]}

\* a default-constructed rmq::FilterExpression
UnsetDescriptor == [type |-> "FILTER_TYPE_UNSPECIFIED", expression |-> ""]

wrapFilterExpressionMatchAll(filter_expression) ==
    IF ConsumerLock = Null THEN filter_expression
    ELSE [type |-> "TAG", expression |-> "*"]

\* ProcessQueueImpl::wrapFilterExpression(filter_expression): the descriptor afterwards
wrapFilterExpression(filter_expression) ==
    IF ConsumerLock = Null THEN filter_expression
    ELSE IF subscription.has_value
         THEN CASE subscription.type_ = "TAG" ->
                     [type |-> "TAG", expression |-> subscription.content_]
                [] subscription.type_ = "SQL92" ->
                     [type |-> "SQL", expression |-> subscription.content_]
                [] OTHER -> filter_expression
         ELSE [type |-> "TAG", expression |-> "*"]

----------------------------------------------------------------------------
(* Pop request *)

\* MixAll::DEFAULT_INVISIBLE_TIME_, in milliseconds
DEFAULT_INVISIBLE_TIME_ == 30000

\* the invisible durations tried, in milliseconds
Durations == {sec * 1000 + ms : sec \in 0..MaxSeconds, ms \in {0, 1, 500, 999}}

\* std::chrono::duration_cast<std::chrono::seconds>(ms).count(): towards zero
SecondsOf(ms) == IF ms >= 0 THEN ms \div 1000 ELSE -((-ms) \div 1000)

invisibleDurationMicros(ms) ==
    [seconds |-> SecondsOf(ms), nanos |-> (ms - SecondsOf(ms) * 1000) * 1000]

\* the invisible_duration of the request: whole seconds, and the rest in
\* nanoseconds as an int32_t (the rest is under a second, so the cast keeps it)
invisibleDuration(ms) ==
    [seconds |-> SecondsOf(ms), nanos |-> (ms - SecondsOf(ms) * 1000) * 1000000]

wrapPopMessageRequestFresh(id, unique_id) ==
    [assert_consumer |-> ConsumerLock # Null,
     group |-> "subscriber.group",
     message_queue |-> "message_queue_",
     filter_expression |-> wrapFilterExpression(UnsetDescriptor),
     batch_size |-> "receiveBatchSize",
     auto_renew |-> TRUE,
     invisible_duration |-> invisibleDuration(invisible_time_),
     attempt_id |-> generateAttemptId(Empty, unique_id)]

\* ProcessQueueImpl::wrapPopMessageRequest: the request built; its attempt_id is
\* also the value left in the caller's attempt_id
wrapPopMessageRequest(id, unique_id) ==
    [assert_consumer |-> ConsumerLock # Null,
     group |-> "subscriber.group",
     message_queue |-> "message_queue_",
     filter_expression |-> wrapFilterExpression(UnsetDescriptor),
     batch_size |-> "receiveBatchSize",
     auto_renew |-> TRUE,
     invisible_duration |-> invisibleDuration(invisible_time_),
     attempt_id |-> IF id = Empty THEN generateAttemptId(id, unique_id) ELSE id]

----------------------------------------------------------------------------
(* Construction *)

\* the event of a step that is no call of the process queue's receive path
NoEvent == [op |-> "none"]

\* ProcessQueueImpl::ProcessQueueImpl, with the owner's configuration and the
\* clock as found at construction
Init ==
    /\ consumerHeld = TRUE
    /\ maxCachedMessageQuantity = MaxQuantityThreshold
    /\ maxCachedMessageMemory = 0
    /\ subscription = NoFilter
    /\ pqAlive = TRUE
    /\ receive_callback_ = Null
    /\ sinkHeld = Sinks
    /\ cached_message_quantity_ = 0
    /\ cached_message_memory_ = 0
    /\ now = 0
    /\ idle_since_ = 0
    /\ attempt_id = Empty
    /\ pc = "idle"
    /\ inflight = EmptyBag
    /\ descriptor = UnsetDescriptor
    /\ invisible_time_ = DEFAULT_INVISIBLE_TIME_
    /\ threads = [th \in Threads |-> IdleThread]
    /\ pending = EmptyBag
    /\ lastRefresh = -1
    /\ event = [op |-> "construct"]

----------------------------------------------------------------------------
(* Receive orchestration *)

syncIdleStateCountdown == MaxTime - now

\* ProcessQueueImpl::syncIdleState(): the idle marker afterwards
syncIdleState == now

\* ProcessQueueImpl::callback(callback), callback being null or a sink the caller owns
Callback(callback) ==
    /\ pqAlive
    /\ callback \in sinkHeld \cup {Null}
    /\ receive_callback_' = callback
    /\ event' = NoEvent
    /\ UNCHANGED <<consumerHeld, ownerVars, invisible_time_, threads, subscription, pqAlive, sinkHeld, cacheVars,
                   clockVars, attempt_id, pc, inflight, descriptor>>

ReceiveMessageThrottled ==
    /\ pqAlive
    /\ pc = "idle"
    /\ BagCardinality(inflight) < MaxInFlight
    /\ IF ConsumerLock = Null \/ cached_message_quantity_ >= maxCachedMessageQuantity
       THEN /\ pc' = "idle"
            /\ event' = [op |-> "receiveMessage", returned |-> TRUE]
       ELSE /\ pc' = "pop"
            /\ event' = [op |-> "receiveMessage", returned |-> FALSE]
    /\ UNCHANGED <<consumerHeld, ownerVars, invisible_time_, threads, subscription, pqAlive, sinkVars, cacheVars,
                   clockVars, attempt_id, inflight, descriptor>>

\* ProcessQueueImpl::receiveMessage(attempt_id) up to the call of popMessage
ReceiveMessage ==
    /\ pqAlive
    /\ pc = "idle"
    /\ BagCardinality(inflight) < MaxInFlight
    /\ IF ConsumerLock = Null
       THEN /\ pc' = "idle"
            /\ event' = [op |-> "receiveMessage", returned |-> TRUE]
       ELSE /\ pc' = "pop"
            /\ event' = [op |-> "receiveMessage", returned |-> FALSE]
    /\ UNCHANGED <<consumerHeld, ownerVars, invisible_time_, threads, subscription, pqAlive, sinkVars, cacheVars,
                   clockVars, attempt_id, inflight, descriptor>>

PopMessageNoSync(unique_id) ==
    /\ pqAlive
    /\ pc = "pop"
    /\ pc' = "idle"
    /\ IF ConsumerLock = Null
       THEN /\ event' = [op |-> "popMessage", dispatched |-> FALSE]
            /\ UNCHANGED <<attempt_id, clockVars, inflight>>
       ELSE LET request == wrapPopMessageRequest(attempt_id, unique_id)
                callback == [cb |-> receive_callback_]
            IN  /\ attempt_id' = request.attempt_id
                /\ idle_since_' = idle_since_
                /\ lastRefresh' = lastRefresh
                /\ now' = now
                /\ inflight' = inflight (+) SetToBag({[request |-> request, callback |-> callback]})
                /\ event' = [op |-> "popMessage", dispatched |-> TRUE,
                             supplied |-> attempt_id,
                             unique_id |-> IF attempt_id = Empty THEN unique_id ELSE Empty,
                             request |-> request]
    /\ UNCHANGED <<consumerHeld, ownerVars, invisible_time_, threads, subscription, pqAlive, sinkVars, cacheVars,
                   descriptor>>

\* ProcessQueueImpl::popMessage(attempt_id), called from receiveMessage, through
\* ClientManager::receiveMessage and the return of both; unique_id is what the
\* generator returns when it is asked
PopMessage(unique_id) ==
    /\ pqAlive
    /\ pc = "pop"
    /\ pc' = "idle"
    /\ IF ConsumerLock = Null
       THEN /\ event' = [op |-> "popMessage", dispatched |-> FALSE]
            /\ UNCHANGED <<attempt_id, clockVars, inflight>>
       ELSE LET request == wrapPopMessageRequest(attempt_id, unique_id)
                callback == [cb |-> receive_callback_]
            IN  /\ attempt_id' = request.attempt_id
                /\ idle_since_' = syncIdleState
                /\ lastRefresh' = now
                /\ now' = now
                /\ inflight' = inflight (+) SetToBag({[request |-> request, callback |-> callback]})
                /\ event' = [op |-> "popMessage", dispatched |-> TRUE,
                             supplied |-> attempt_id,
                             unique_id |-> IF attempt_id = Empty THEN unique_id ELSE Empty,
                             request |-> request]
    /\ UNCHANGED <<consumerHeld, ownerVars, invisible_time_, threads, subscription, pqAlive, sinkVars, cacheVars,
                   descriptor>>

\* what the transport reports: success, empty, or an error
Outcomes == {[ec |-> "OK", result |-> "messages"],
             [ec |-> "OK", result |-> "empty"],
             [ec |-> "DEADLINE_EXCEEDED", result |-> "none"]}

CompletionLambdaDropsErrors(callback, ec, result) ==
    LET receive_cb == SinkLock(callback.cb)
    IN  IF receive_cb # Null /\ ec = "OK"
        THEN <<[sink |-> receive_cb, ec |-> ec, attempt_id |-> attempt_id, result |-> result]>>
        ELSE << >>

CompletionLambdaCurrentSink(callback, ec, result) ==
    LET receive_cb == SinkLock(receive_callback_)
    IN  IF receive_cb # Null
        THEN <<[sink |-> receive_cb, ec |-> ec, attempt_id |-> attempt_id, result |-> result]>>
        ELSE << >>

\* the completion lambda of popMessage, run on the callback it captured: the
\* calls of onCompletion it makes
CompletionLambda(callback, ec, result) ==
    LET receive_cb == SinkLock(callback.cb)
    IN  IF receive_cb # Null
        THEN <<[sink |-> receive_cb, ec |-> ec, attempt_id |-> attempt_id, result |-> result]>>
        ELSE << >>

CompleteRetrying(outcome) ==
    \E sent \in BagToSet(inflight) :
        /\ inflight' = IF outcome.ec = "OK" THEN inflight (-) SetToBag({sent}) ELSE inflight
        /\ event' = [op |-> "completion",
                     request |-> sent.request,
                     cb |-> sent.callback.cb,
                     ec |-> outcome.ec,
                     result |-> outcome.result,
                     queueAlive |-> pqAlive,
                     sinkAlive |-> SinkAlive(sent.callback.cb),
                     calls |-> CompletionLambda(sent.callback, outcome.ec, outcome.result)]
        /\ UNCHANGED <<consumerHeld, ownerVars, invisible_time_, threads, subscription, pqAlive, sinkVars, cacheVars,
                       clockVars, attempt_id, pc, descriptor>>

\* the transport invokes the completion handler of an outstanding request
Complete(outcome) ==
    \E sent \in BagToSet(inflight) :
        /\ inflight' = inflight (-) SetToBag({sent})
        /\ event' = [op |-> "completion",
                     request |-> sent.request,
                     cb |-> sent.callback.cb,
                     ec |-> outcome.ec,
                     result |-> outcome.result,
                     queueAlive |-> pqAlive,
                     sinkAlive |-> SinkAlive(sent.callback.cb),
                     calls |-> CompletionLambda(sent.callback, outcome.ec, outcome.result)]
        /\ UNCHANGED <<consumerHeld, ownerVars, invisible_time_, threads, subscription, pqAlive, sinkVars, cacheVars,
                       clockVars, attempt_id, pc, descriptor>>

\* ProcessQueueImpl::~ProcessQueueImpl: the last owner lets go of the queue, no
\* call on it running
DestroyProcessQueue ==
    /\ pqAlive
    /\ pc = "idle"
    /\ pqAlive' = FALSE
    /\ event' = NoEvent
    /\ UNCHANGED <<consumerHeld, ownerVars, invisible_time_, threads, subscription, sinkVars, cacheVars, clockVars,
                   attempt_id, pc, inflight, descriptor>>

\* the other holders of the PushConsumerImpl let go of it
ReleaseConsumer ==
    /\ consumerHeld
    /\ consumerHeld' = FALSE
    /\ event' = NoEvent
    /\ UNCHANGED <<ownerVars, invisible_time_, threads, subscription, pqAlive, sinkVars, cacheVars, clockVars,
                   attempt_id, pc, inflight, descriptor>>

\* a holder of a sink other than the process queue lets go of it
ReleaseSink(s) ==
    /\ s \in sinkHeld
    /\ sinkHeld' = sinkHeld \ {s}
    /\ event' = NoEvent
    /\ UNCHANGED <<consumerHeld, ownerVars, invisible_time_, threads, subscription, pqAlive, receive_callback_,
                   cacheVars, clockVars, attempt_id, pc, inflight, descriptor>>

\* the caller assigns to the string it passes to receiveMessage
CallerAssign(id) ==
    /\ attempt_id # id
    /\ attempt_id' = id
    /\ event' = NoEvent
    /\ UNCHANGED <<consumerHeld, ownerVars, invisible_time_, threads, subscription, pqAlive, sinkVars, cacheVars,
                   clockVars, pc, inflight, descriptor>>

Next ==
    \/ \E callback \in Sinks \cup {Null} : Callback(callback)
    \/ ReceiveMessage
    \/ \E unique_id \in RawIds : PopMessage(unique_id)
    \/ \E outcome \in Outcomes : Complete(outcome)
    \/ DestroyProcessQueue
    \/ ReleaseConsumer
    \/ \E s \in Sinks : ReleaseSink(s)
    \/ \E id \in {Empty, CallerId} : CallerAssign(id)

Spec == Init /\ [][Next]_vars

----------------------------------------------------------------------------
(* Cache accounting, throttling and filter resolution *)

RECURSIVE SumSeq(_)
SumSeq(q) == IF q = << >> THEN 0 ELSE Head(q) + SumSeq(Tail(q))

accountCacheQuantityOnly(messages) ==
    IF ConsumerLock = Null
    THEN <<cached_message_quantity_, cached_message_memory_>>
    ELSE <<(cached_message_quantity_ + Len(messages)) % CounterModulus,
           (cached_message_memory_ + Len(messages)) % CounterModulus>>

\* ProcessQueueImpl::accountCache(messages), messages given by their body sizes:
\* the two counters afterwards
accountCache(messages) ==
    IF ConsumerLock = Null
    THEN <<cached_message_quantity_, cached_message_memory_>>
    ELSE <<(cached_message_quantity_ + Len(messages)) % CounterModulus,
           (cached_message_memory_ + SumSeq(messages)) % CounterModulus>>

releaseUnchecked(body_size) ==
    <<(cached_message_quantity_ - 1) % CounterModulus,
      (cached_message_memory_ - body_size) % CounterModulus>>

\* ProcessQueueImpl::release(body_size): the two counters afterwards
release(body_size) ==
    IF ConsumerLock = Null
    THEN <<cached_message_quantity_, cached_message_memory_>>
    ELSE <<(cached_message_quantity_ - 1) % CounterModulus,
           (cached_message_memory_ - body_size) % CounterModulus>>

shouldThrottleStrict ==
    IF ConsumerLock = Null THEN FALSE
    ELSE IF cached_message_quantity_ > maxCachedMessageQuantity THEN TRUE
    ELSE IF maxCachedMessageMemory # 0 /\ cached_message_memory_ > maxCachedMessageMemory
         THEN TRUE
    ELSE FALSE

\* ProcessQueueImpl::shouldThrottle()
shouldThrottle ==
    IF ConsumerLock = Null THEN FALSE
    ELSE IF cached_message_quantity_ >= maxCachedMessageQuantity THEN TRUE
    ELSE IF maxCachedMessageMemory # 0 /\ cached_message_memory_ >= maxCachedMessageMemory
         THEN TRUE
    ELSE FALSE

\* the batches of messages handed to accountCache, by body size
Batches == UNION {[1..n -> 1..MaxBodySize] : n \in 1..MaxBatch}

\* the history entries of a batch: each message with whether the owner was
\* there when it was handed over
Handed(messages) ==
    LET entry(i) == [size |-> messages[i], ownerAlive |-> ConsumerAlive]
        RECURSIVE bagOf(_)
        bagOf(n) == IF n = 0 THEN EmptyBag ELSE bagOf(n - 1) (+) SetToBag({entry(n)})
    IN  bagOf(Len(messages))

\* the consumer hands received messages to accountCache
AccountCache(messages) ==
    /\ pqAlive
    /\ BagCardinality(pending) + Len(messages) <= MaxPending
    /\ cached_message_quantity_' = accountCache(messages)[1]
    /\ cached_message_memory_' = accountCache(messages)[2]
    /\ pending' = pending (+) Handed(messages)
    /\ event' = [op |-> "accountCache", n |-> Len(messages)]
    /\ UNCHANGED <<consumerHeld, ownerVars, invisible_time_, threads, subscription, pqAlive, sinkVars, clockVars,
                   attempt_id, pc, inflight, descriptor>>

\* the consumer releases a message it handed to accountCache before, with the
\* size of its body
Release ==
    \E message \in BagToSet(pending) :
        /\ pqAlive
        /\ cached_message_quantity_' = release(message.size)[1]
        /\ cached_message_memory_' = release(message.size)[2]
        /\ pending' = pending (-) SetToBag({message})
        /\ event' = [op |-> "release", admitted |-> message.ownerAlive]
        /\ UNCHANGED <<consumerHeld, ownerVars, invisible_time_, threads, subscription, pqAlive, sinkVars, clockVars,
                       attempt_id, pc, inflight, descriptor>>

\* a call of shouldThrottle()
ShouldThrottle ==
    /\ pqAlive
    /\ event' = [op |-> "shouldThrottle", ret |-> shouldThrottle]
    /\ UNCHANGED <<consumerHeld, ownerVars, invisible_time_, threads, subscription, pqAlive, sinkVars, cacheVars,
                   clockVars, attempt_id, pc, inflight, descriptor>>

\* a call of wrapFilterExpression on the descriptor
WrapFilterExpression ==
    /\ pqAlive
    /\ descriptor' = wrapFilterExpression(descriptor)
    /\ event' = [op |-> "wrapFilterExpression"]
    /\ UNCHANGED <<consumerHeld, ownerVars, invisible_time_, threads, subscription, pqAlive, sinkVars, cacheVars,
                   clockVars, attempt_id, pc, inflight>>

\* the owning consumer's subscription for the topic changes at runtime
Subscribe(expression) ==
    /\ ConsumerAlive
    /\ subscription # expression
    /\ subscription' = expression
    /\ event' = NoEvent
    /\ UNCHANGED <<consumerHeld, ownerVars, invisible_time_, threads, pqAlive, sinkVars, cacheVars, clockVars,
                   attempt_id, pc, inflight, descriptor>>

\* construction under each configuration of the thresholds
InitCache ==
    /\ consumerHeld = TRUE
    /\ maxCachedMessageQuantity \in 1..MaxQuantityThreshold
    /\ maxCachedMessageMemory \in {0, MaxBodySize + 1}
    /\ subscription = NoFilter
    /\ pqAlive = TRUE
    /\ receive_callback_ = Null
    /\ sinkHeld = Sinks
    /\ cached_message_quantity_ = 0
    /\ cached_message_memory_ = 0
    /\ now = 0
    /\ idle_since_ = 0
    /\ attempt_id = Empty
    /\ pc = "idle"
    /\ inflight = EmptyBag
    /\ descriptor = UnsetDescriptor
    /\ invisible_time_ = DEFAULT_INVISIBLE_TIME_
    /\ threads = [th \in Threads |-> IdleThread]
    /\ pending = EmptyBag
    /\ lastRefresh = -1
    /\ event = [op |-> "construct"]

NextCache ==
    \/ \E messages \in Batches : AccountCache(messages)
    \/ Release
    \/ ShouldThrottle
    \/ WrapFilterExpression
    \/ \E expression \in Subscriptions : Subscribe(expression)
    \/ ReleaseConsumer

SpecCache == InitCache /\ [][NextCache]_vars

----------------------------------------------------------------------------
(* Idle detection *)

\* MixAll::PROCESS_QUEUE_EXPIRATION_THRESHOLD_, in ticks of the model's clock
PROCESS_QUEUE_EXPIRATION_THRESHOLD_ == 2

expiredSinceEpoch == now > PROCESS_QUEUE_EXPIRATION_THRESHOLD_

\* ProcessQueueImpl::expired()
expired == now - idle_since_ > PROCESS_QUEUE_EXPIRATION_THRESHOLD_

\* a call of expired()
Expired ==
    /\ pqAlive
    /\ event' = [op |-> "expired", ret |-> expired]
    /\ UNCHANGED <<consumerHeld, ownerVars, invisible_time_, threads, subscription, pqAlive, sinkVars, cacheVars,
                   clockVars, attempt_id, pc, inflight, descriptor>>

\* std::chrono::steady_clock advances
Tick ==
    /\ now < MaxTime
    /\ now' = now + 1
    /\ event' = NoEvent
    /\ UNCHANGED <<consumerHeld, ownerVars, invisible_time_, threads, subscription, pqAlive, sinkVars, cacheVars,
                   idle_since_, lastRefresh, attempt_id, pc, inflight, descriptor>>

NextIdle ==
    \/ Tick
    \/ Expired
    \/ ReceiveMessage
    \/ \E unique_id \in RawIds : PopMessage(unique_id)
    \/ \E outcome \in Outcomes : Complete(outcome)
    \/ ReleaseConsumer

SpecIdle == Init /\ [][NextIdle]_vars

----------------------------------------------------------------------------
(* Request construction under each invisible duration and subscription *)

\* construction with each invisible duration
InitRequest ==
    /\ consumerHeld = TRUE
    /\ maxCachedMessageQuantity = MaxQuantityThreshold
    /\ maxCachedMessageMemory = 0
    /\ subscription = NoFilter
    /\ pqAlive = TRUE
    /\ receive_callback_ = Null
    /\ sinkHeld = Sinks
    /\ cached_message_quantity_ = 0
    /\ cached_message_memory_ = 0
    /\ now = 0
    /\ idle_since_ = 0
    /\ attempt_id = Empty
    /\ pc = "idle"
    /\ inflight = EmptyBag
    /\ descriptor = UnsetDescriptor
    /\ invisible_time_ \in Durations
    /\ threads = [th \in Threads |-> IdleThread]
    /\ pending = EmptyBag
    /\ lastRefresh = -1
    /\ event = [op |-> "construct"]

NextRequest ==
    \/ ReceiveMessage
    \/ \E unique_id \in RawIds : PopMessage(unique_id)
    \/ \E outcome \in Outcomes : Complete(outcome)
    \/ \E expression \in Subscriptions : Subscribe(expression)
    \/ ReleaseConsumer

SpecRequest == InitRequest /\ [][NextRequest]_vars

----------------------------------------------------------------------------
(* Receive calls running side by side *)

\* receiveMessage and popMessage on thread th, as far as syncIdleState's reading
\* of the clock; nothing orders this against the other thread
PopMessageRead(th, unique_id) ==
    /\ pqAlive
    /\ threads[th].pc = "idle"
    /\ IF ConsumerLock = Null
       THEN /\ event' = [op |-> "receiveMessage", returned |-> TRUE]
            /\ UNCHANGED <<attempt_id, threads>>
       ELSE LET request == wrapPopMessageRequest(attempt_id, unique_id)
                others == {o \in Threads \ {th} : threads[o].pc = "read"}
            IN  /\ attempt_id' = request.attempt_id
                /\ threads' = [o \in Threads |->
                                 IF o = th
                                 THEN [pc |-> "read", request |-> request,
                                       t |-> syncIdleState, overlapped |-> others # {}]
                                 ELSE IF o \in others
                                      THEN [threads[o] EXCEPT !.overlapped = TRUE]
                                      ELSE threads[o]]
                /\ event' = [op |-> "popMessage.read", thread |-> th]
    /\ UNCHANGED <<consumerHeld, ownerVars, invisible_time_, subscription, pqAlive, sinkVars,
                   cacheVars, clockVars, pc, inflight, descriptor>>

\* the rest of popMessage on thread th: syncIdleState's store to idle_since_,
\* the capture of the sink, the hand-over to the transport and the return
PopMessageStore(th) ==
    /\ pqAlive
    /\ threads[th].pc = "read"
    /\ BagCardinality(inflight) < MaxInFlight
    /\ idle_since_' = threads[th].t
    /\ lastRefresh' = threads[th].t
    /\ now' = now
    /\ inflight' = inflight (+) SetToBag({[request |-> threads[th].request,
                                           callback |-> [cb |-> receive_callback_]]})
    /\ threads' = [threads EXCEPT ![th] = IdleThread]
    /\ event' = [op |-> "popMessage.store", thread |-> th,
                 overlapped |-> threads[th].overlapped, before |-> idle_since_]
    /\ UNCHANGED <<consumerHeld, ownerVars, invisible_time_, subscription, pqAlive, sinkVars,
                   cacheVars, attempt_id, pc, descriptor>>

NextConcurrent ==
    \/ \E th \in Threads, unique_id \in RawIds : PopMessageRead(th, unique_id)
    \/ \E th \in Threads : PopMessageStore(th)
    \/ \E outcome \in Outcomes : Complete(outcome)
    \/ Tick
    \/ ReleaseConsumer

SpecConcurrent == Init /\ [][NextConcurrent]_vars

----------------------------------------------------------------------------
(* Properties of the receive path, under Spec *)

\* C1: a completion handler invoked after the process queue and the sink it
\* captured were destroyed invokes no sink; reading the caller's attempt id is
\* part of the call it does not make, and the lambda holds no reference to the
\* queue.
C1_DestroyedQueueCompletionDoesNothing ==
    (event.op = "completion" /\ ~event.queueAlive /\ ~event.sinkAlive)
        => event.calls = << >>

C1_Witness ==
    /\ event.op = "completion"
    /\ event.cb # Null
    /\ ~event.queueAlive
    /\ ~event.sinkAlive
    /\ event.calls = << >>

\* C2: every completion (success, empty or error) whose captured sink is alive
\* makes exactly one onCompletion call, on that sink, with the error code and
\* the result the transport supplied.
C2_LiveSinkGetsEveryCompletionOnce ==
    (event.op = "completion" /\ event.sinkAlive)
        => /\ Len(event.calls) = 1
           /\ event.calls[1].sink = event.cb
           /\ event.calls[1].ec = event.ec
           /\ event.calls[1].result = event.result

C2_Witness ==
    /\ event.op = "completion"
    /\ event.sinkAlive
    /\ event.ec = "DEADLINE_EXCEEDED"
    /\ Len(event.calls) = 1
    /\ event.calls[1].ec = "DEADLINE_EXCEEDED"

\* C3: the attempt id handed to the sink is the attempt id that was placed in
\* the completed request at dispatch.
C3_SinkGetsTheRequestsAttemptId ==
    (event.op = "completion" /\ event.calls # << >>)
        => event.calls[1].attempt_id = event.request.attempt_id

\* C4: receiveMessage called when the owning consumer is gone returns without
\* dispatching a request, refreshing the idle marker, generating an attempt id
\* or touching the cache counters.
C4_ReceiveWithoutOwnerIsNoOp ==
    [][(~ConsumerAlive /\ event'.op = "receiveMessage")
         => /\ pc' = "idle"
            /\ event'.returned
            /\ UNCHANGED <<inflight, idle_since_, lastRefresh, attempt_id,
                           cached_message_quantity_, cached_message_memory_>>]_vars

C4_Witness ==
    /\ event.op = "receiveMessage"
    /\ event.returned
    /\ ~consumerHeld
    /\ attempt_id = Empty
    /\ pc = "idle"

\* C9: a popMessage entered with a non-empty attempt id leaves the caller's
\* string as it is and puts that value in the request; so an id generated by
\* one receive is what every later receive with the same string sends.
C9_HeldAttemptIdIsReused ==
    [][(event'.op = "popMessage" /\ event'.dispatched /\ attempt_id # Empty)
         => /\ attempt_id' = attempt_id
            /\ event'.request.attempt_id = attempt_id]_vars

\* a retry: the id the request carries was generated by an earlier receive
C9_Witness ==
    /\ event.op = "popMessage"
    /\ event.dispatched
    /\ Len(event.supplied) = 36
    /\ event.request.attempt_id = event.supplied
    /\ attempt_id = event.supplied

HyphenPositions == {9, 14, 19, 24}

IsHyphen(c) == c = "-"
NotHyphen(c) == c # "-"

\* total length 36, exactly four hyphens, the first 32 raw characters grouped 8-4-4-4-12
WellFormed(id, raw) ==
    /\ Len(id) = 36
    /\ {i \in 1..Len(id) : IsHyphen(id[i])} = HyphenPositions
    /\ SelectSeq(id, NotHyphen) = SubSeq(raw, 1, 32)

FreshFrom(minLen) ==
    /\ event.op = "popMessage"
    /\ event.dispatched
    /\ event.supplied = Empty
    /\ Len(event.unique_id) >= minLen

\* C10 as stated: an empty attempt id and a raw identifier of 32 or more
\* characters give a well-formed attempt id.
C10_WellFormedFrom32 ==
    FreshFrom(32) => /\ WellFormed(event.request.attempt_id, event.unique_id)
                     /\ attempt_id = event.request.attempt_id

\* C10 amended: an empty attempt id and a raw identifier of 34 or more
\* characters give a well-formed attempt id: length 36, exactly four hyphens,
\* the first 32 raw characters grouped 8-4-4-4-12.
C10_WellFormedFrom34 ==
    FreshFrom(34) => /\ WellFormed(event.request.attempt_id, event.unique_id)
                     /\ attempt_id = event.request.attempt_id

C10_Witness ==
    /\ FreshFrom(34)
    /\ Len(event.unique_id) = 35
    /\ Len(event.request.attempt_id) = 36

\* C11: when the generator returns a raw identifier shorter than the minimum,
\* the caller's attempt id stays empty, never a partial id, and the request is
\* handed to the transport all the same, with an empty attempt id.
C11_ShortRawIdLeavesAttemptIdEmpty ==
    (FreshFrom(0) /\ Len(event.unique_id) < MinRawIdSize)
        => /\ attempt_id = Empty
           /\ event.request.attempt_id = Empty
           /\ BagIn([request |-> event.request, callback |-> [cb |-> receive_callback_]],
                    inflight)

\* a raw identifier of 31 characters, one short of a full set of groups
C11_Witness ==
    /\ FreshFrom(0)
    /\ Len(event.unique_id) = 31
    /\ event.request.attempt_id = Empty
    /\ BagCardinality(inflight) = 1

----------------------------------------------------------------------------
(* Properties of the cache accounting, under SpecCache *)

\* the messages the cache holds: admitted while the owner was there, not yet released
Cached == {m \in BagToSet(pending) : m.ownerAlive}

RECURSIVE CountOf(_)
CountOf(elems) ==
    IF elems = {} THEN 0
    ELSE LET m == CHOOSE x \in elems : TRUE IN pending[m] + CountOf(elems \ {m})

RECURSIVE BytesOf(_)
BytesOf(elems) ==
    IF elems = {} THEN 0
    ELSE LET m == CHOOSE x \in elems : TRUE IN pending[m] * m.size + BytesOf(elems \ {m})

\* a counter read as a signed number is not below zero
NotWrapped(counter) == counter < CounterModulus \div 2

\* C5 as stated: after any sequence of accountCache and release calls, each
\* release following the admission of its message, the quantity is the number
\* of messages admitted less the number released, the memory is the admitted
\* bytes less the released bytes, neither is below zero, and both are 0 when
\* nothing handed over remains unreleased.
C5_CountersAreNetOfAllCalls ==
    /\ cached_message_quantity_ = CountOf(Cached)
    /\ cached_message_memory_ = BytesOf(Cached)
    /\ NotWrapped(cached_message_quantity_)
    /\ NotWrapped(cached_message_memory_)
    /\ pending = EmptyBag => (cached_message_quantity_ = 0 /\ cached_message_memory_ = 0)

\* C5 amended: while the owning consumer is alive the quantity and the memory
\* are the net of the admissions and releases made, so both are 0 for a new or a
\* drained queue; once the owner is gone they stay at or above that net (a
\* release is then a no-op); they never go below zero.
C5_CountersAreNetWhileOwnerAlive ==
    /\ ConsumerAlive => /\ cached_message_quantity_ = CountOf(Cached)
                        /\ cached_message_memory_ = BytesOf(Cached)
    /\ cached_message_quantity_ >= CountOf(Cached)
    /\ cached_message_memory_ >= BytesOf(Cached)
    /\ NotWrapped(cached_message_quantity_)
    /\ NotWrapped(cached_message_memory_)

C5_Witness ==
    /\ event.op = "release"
    /\ ConsumerAlive
    /\ cached_message_quantity_ = 1
    /\ cached_message_memory_ = MaxBodySize
    /\ pending # EmptyBag

\* the written condition: the quantity reaches its threshold, or a memory
\* threshold is configured and the memory reaches it
ThrottleCondition ==
    \/ cached_message_quantity_ >= maxCachedMessageQuantity
    \/ (maxCachedMessageMemory # 0 /\ cached_message_memory_ >= maxCachedMessageMemory)

C7_OwnerGoneMakesNoOps ==
    [][~ConsumerAlive
         => /\ event'.op \in {"accountCache", "release"}
               => UNCHANGED <<cached_message_quantity_, cached_message_memory_>>
            /\ event'.op = "shouldThrottle" => event'.ret = FALSE
            /\ event'.op = "wrapFilterExpression" => descriptor' = descriptor]_vars

\* shouldThrottle() answered false with the owner gone and the counters over the threshold
C7_Witness ==
    /\ event.op = "shouldThrottle"
    /\ ~ConsumerAlive
    /\ ThrottleCondition
    /\ event.ret = FALSE
    /\ subscription.has_value
    /\ descriptor = UnsetDescriptor

----------------------------------------------------------------------------
(* Properties of the idle marker, under SpecIdle *)

\* C8: expired() is false right after the idle marker is refreshed, true once
\* more than the expiration threshold has passed since the last refresh, and
\* once true it stays true until the marker is refreshed again.
C8_ExpiredFollowsLastRefresh ==
    /\ []((event.op = "popMessage" /\ event.dispatched) => ~expired)
    /\ []((lastRefresh >= 0 /\ now - lastRefresh > PROCESS_QUEUE_EXPIRATION_THRESHOLD_)
            => expired)
    /\ []((event.op = "expired" /\ lastRefresh >= 0)
            => (event.ret <=> now - lastRefresh > PROCESS_QUEUE_EXPIRATION_THRESHOLD_))
    /\ [][(expired /\ lastRefresh' = lastRefresh) => expired']_vars

\* expired() answered true one tick past the threshold after a refresh made at a later time than construction
C8_Witness ==
    /\ event.op = "expired"
    /\ event.ret
    /\ lastRefresh > 0
    /\ now - lastRefresh = PROCESS_QUEUE_EXPIRATION_THRESHOLD_ + 1

----------------------------------------------------------------------------
(* Properties of the request, under SpecRequest *)

Dispatched == event.op = "popMessage" /\ event.dispatched

\* C12: for an invisible duration of d milliseconds, d not negative, the
\* request's invisible duration has seconds = d div 1000 and nanoseconds =
\* (d mod 1000) * 1,000,000, so the nanoseconds are from 0 to under 10^9 and
\* seconds and nanoseconds together are d (compared in milliseconds, the
\* nanoseconds being whole milliseconds).
C12_InvisibleDurationSplit ==
    Dispatched
        => LET d == invisible_time_
               dur == event.request.invisible_duration
           IN  /\ dur.seconds = d \div 1000
               /\ dur.nanos = (d % 1000) * 1000000
               /\ 0 <= dur.nanos /\ dur.nanos < 1000000000
               /\ dur.nanos % 1000000 = 0
               /\ dur.seconds * 1000 + dur.nanos \div 1000000 = d

\* 1500 ms gives seconds = 1, nanoseconds = 500,000,000
C12_Witness ==
    /\ Dispatched
    /\ invisible_time_ = 1500
    /\ event.request.invisible_duration = [seconds |-> 1, nanos |-> 500000000]

\* the filter the subscription table stands for
ResolvedFilter ==
    IF subscription.has_value
    THEN [type |-> IF subscription.type_ = "SQL92" THEN "SQL" ELSE "TAG",
          expression |-> subscription.content_]
    ELSE [type |-> "TAG", expression |-> "*"]

\* C13: the filter of each request is the one the owner's subscription table
\* gives when the request is built: (TAG, "*") when none is registered, else
\* the registered type and content; so a request built after the subscription
\* changed carries the new filter.
C13_FilterResolvedPerRequest ==
    Dispatched => event.request.filter_expression = ResolvedFilter

\* a later receive, reusing the attempt id of an earlier one, carries the SQL
\* filter registered after construction
C13_Witness ==
    /\ Dispatched
    /\ event.supplied # Empty
    /\ event.request.filter_expression = [type |-> "SQL", expression |-> "a > 5"]

----------------------------------------------------------------------------
(* Properties of the idle marker under receive calls side by side, under SpecConcurrent *)

\* C14 as stated: across any sequence or interleaving of receive calls on one
\* process queue, idle_since_ never decreases.
C14_IdleSinceNeverDecreases ==
    [][idle_since_' >= idle_since_]_vars

\* C14 amended: idle_since_ never decreases across receive calls that do not
\* overlap one another: only the refresh of a receive call that ran side by
\* side with another one can move it backwards.
C14_IdleSinceForwardWhenSerialized ==
    [][idle_since_' < idle_since_
         => (event'.op = "popMessage.store" /\ event'.overlapped)]_vars

\* a receive call that overlapped no other moved the marker forward from an earlier refresh
C14_Witness ==
    /\ event.op = "popMessage.store"
    /\ ~event.overlapped
    /\ event.before > 0
    /\ idle_since_ > event.before

----------------------------------------------------------------------------
(* Receiving while the cache fills *)

NextThrottle ==
    \/ \E messages \in Batches : AccountCache(messages)
    \/ Release
    \/ ShouldThrottle
    \/ ReceiveMessage
    \/ \E unique_id \in RawIds : PopMessage(unique_id)
    \/ \E outcome \in Outcomes : Complete(outcome)
    \/ ReleaseConsumer

SpecThrottle == InitCache /\ [][NextThrottle]_vars

----------------------------------------------------------------------------
(* Further properties of the receive path *)

\* C15 (under SpecIdle): a step that hands a request to the transport has
\* refreshed the idle marker to the current time in the same call, so no request
\* is dispatched without a refresh and expired() is false at the dispatch.
C15_DispatchFollowsRefresh ==
    [][BagCardinality(inflight') > BagCardinality(inflight)
         => /\ event'.op = "popMessage"
            /\ idle_since_' = now'
            /\ lastRefresh' = now'
            /\ ~expired']_vars

\* a request dispatched later than the threshold after construction
C15_Witness ==
    /\ Dispatched
    /\ now > PROCESS_QUEUE_EXPIRATION_THRESHOLD_
    /\ idle_since_ = now
    /\ ~expired

\* C16 (under Spec): a receiveMessage call with the owner alive goes on to
\* popMessage, which hands exactly one request to the transport and returns; a
\* completion of any kind takes its request away and dispatches nothing; only
\* popMessage adds a request.
C16_NoRetryLoop ==
    [][/\ (event'.op = "receiveMessage" /\ ConsumerAlive)
          => (pc' = "pop" /\ inflight' = inflight)
       /\ event'.op = "popMessage"
          => /\ event'.dispatched
             /\ pc' = "idle"
             /\ BagCardinality(inflight') = BagCardinality(inflight) + 1
       /\ event'.op = "completion"
          => /\ BagCardinality(inflight') = BagCardinality(inflight) - 1
             /\ pc' = pc
       /\ event'.op # "popMessage"
          => BagCardinality(inflight') <= BagCardinality(inflight)]_vars

\* an error completion reached a live sink and left nothing at the transport
C16_Witness ==
    /\ event.op = "completion"
    /\ event.ec = "DEADLINE_EXCEEDED"
    /\ Len(event.calls) = 1
    /\ inflight = EmptyBag
    /\ pc = "idle"

\* C17 (under Spec): popMessage captures the sink registered at that moment,
\* and a completion is delivered to that sink only: never to a sink registered
\* afterwards, and to nobody when no sink was registered at dispatch.
C17_CompletionGoesToSinkAtDispatch ==
    /\ [][(event'.op = "popMessage" /\ event'.dispatched)
            => BagIn([request |-> event'.request, callback |-> [cb |-> receive_callback_]],
                     inflight')]_vars
    /\ [](event.op = "completion"
            => /\ \A i \in 1..Len(event.calls) : event.calls[i].sink = event.cb
               /\ event.cb = Null => event.calls = << >>)

\* the completion went to the sink of the dispatch although another sink, alive,
\* is registered by now
C17_Witness ==
    /\ event.op = "completion"
    /\ event.cb = "sink1"
    /\ receive_callback_ = "sink2"
    /\ pqAlive
    /\ Len(event.calls) = 1
    /\ event.calls[1].sink = "sink1"

\* C18 (under Spec): popMessage entered from receiveMessage always finds the
\* owner, whatever the other holders did in between, and the assertion of
\* wrapPopMessageRequest that the consumer resolves holds for every request.
C18_AssertConsumerHolds ==
    event.op = "popMessage" => (event.dispatched /\ event.request.assert_consumer)

\* the other holders let go of the owner between receiveMessage's lock and popMessage
C18_Witness ==
    /\ Dispatched
    /\ ~consumerHeld
    /\ event.request.assert_consumer

----------------------------------------------------------------------------
(* Owner destruction and throttling *)

\* C19 (under SpecCache): once the owner is gone it stays gone and both counters
\* stay at the value they had; a release of a message whose accountCache was
\* skipped because the owner was gone is not applied; so neither counter wraps
\* below zero.
C19_OwnerLossFreezesCounters ==
    /\ [][/\ ~ConsumerAlive
             => /\ ~ConsumerAlive'
                /\ UNCHANGED <<cached_message_quantity_, cached_message_memory_>>
          /\ (event'.op = "release" /\ ~event'.admitted)
             => UNCHANGED <<cached_message_quantity_, cached_message_memory_>>]_vars
    /\ [](NotWrapped(cached_message_quantity_) /\ NotWrapped(cached_message_memory_))

\* a message handed over after the owner went was released, and the counters
\* still hold what was cached when the owner went
C19_Witness ==
    /\ event.op = "release"
    /\ ~event.admitted
    /\ ~ConsumerAlive
    /\ cached_message_quantity_ = 1
    /\ cached_message_memory_ = MaxBodySize

\* C20 (under SpecThrottle): a call of shouldThrottle() changes no state of the
\* process queue, and receiveMessage goes on to popMessage, which dispatches a
\* request, also while shouldThrottle() is true.
C20_ThrottlingIsAdvisory ==
    [][/\ event'.op = "shouldThrottle"
          => UNCHANGED <<cacheVars, clockVars, sinkVars, subscription, descriptor,
                         attempt_id, pc, inflight, pqAlive, consumerHeld>>
       /\ (event'.op = "receiveMessage" /\ shouldThrottle) => pc' = "pop"
       /\ event'.op = "popMessage" => event'.dispatched]_vars

\* a request was dispatched while shouldThrottle() is true
C20_Witness ==
    /\ Dispatched
    /\ shouldThrottle
    /\ cached_message_quantity_ >= maxCachedMessageQuantity
    /\ BagCardinality(inflight) = 1

====
